---- MODULE Spec2Model ----
(***************************************************************************)
(* Model of gemini.py: a command-line client and REPL around a hosted      *)
(* text-generation API, with a fallback list of model names that is tried  *)
(* when a send fails with the provider's "model not found" message.        *)
(*                                                                         *)
(* Strings are TLA+ strings; substring search, strip() and lower() are     *)
(* computed character by character with SubSeq.  An Optional[str] is a     *)
(* sequence of length 0 (None) or 1 (the string).  The provider is         *)
(* external: every send_message call either returns a response with some   *)
(* text or raises an exception with some message, chosen freely.           *)
(***************************************************************************)
EXTENDS Integers, Sequences, FiniteSets

\* ---------------------------------------------------------------- bounds
MaxTurns == 2
MaxFallbacks == 2

\* ------------------------------------------------------- string functions
None == <<>>
Some(s) == <<s>>

\* Python truthiness of an Optional[str]: None and "" are falsy.
Truthy(o) == o # None /\ o[1] # ""

OrEmpty_keepNone(o) == IF o = None THEN "None" ELSE o[1]

\* Python's `o or ""` for an Optional[str].
OrEmpty(o) == IF Truthy(o) THEN o[1] ELSE ""

\* Python's `sub in s`.
Contains(s, sub) ==
    \E i \in 1..(Len(s) - Len(sub) + 1) : SubSeq(s, i, i + Len(sub) - 1) = sub

CharAt(s, i) == SubSeq(s, i, i)

IsSpace(c) == c \in {" ", "\t", "\n", "\r"}

Strip_none(s) == s

\* Python's str.strip(): drops leading and trailing whitespace.
Strip(s) ==
    LET keep == {i \in 1..Len(s) : ~IsSpace(CharAt(s, i))}
    IN  IF keep = {} THEN ""
        ELSE LET lo == CHOOSE i \in keep : \A j \in keep : i <= j
                 hi == CHOOSE i \in keep : \A j \in keep : j <= i
             IN  SubSeq(s, lo, hi)

UpperAlpha == "ABCDEFGHIJKLMNOPQRSTUVWXYZ"
LowerAlpha == "abcdefghijklmnopqrstuvwxyz"

LowerChar(c) ==
    IF \E k \in 1..Len(UpperAlpha) : CharAt(UpperAlpha, k) = c
    THEN CharAt(LowerAlpha, CHOOSE k \in 1..Len(UpperAlpha) : CharAt(UpperAlpha, k) = c)
    ELSE c

RECURSIVE Lower(_)
\* Python's str.lower() on ASCII text.
Lower(s) == IF s = "" THEN "" ELSE LowerChar(CharAt(s, 1)) \o Lower(SubSeq(s, 2, Len(s)))

IsQuit_caseSensitive(p) == p \in {"exit", "quit"}

\* run_repl, line 140: prompt.lower() in {"exit", "quit"}
IsQuit(p) == Lower(p) \in {"exit", "quit"}

\* ------------------------------------------------------------- exceptions
\* An exception object: `id` tells two exceptions with the same message apart
\* (0 for one raised by the program itself, else the number of the send that
\* raised it), `msg` is str(exc).
Exc(id, msg) == [id |-> id, msg |-> msg]
NoExc == [id |-> -1, msg |-> ""]

IsModelNotFoundError_either(exc) ==
    Contains(exc.msg, "not found for API version") \/ Contains(exc.msg, "models/")

\* _is_model_not_found_error
IsModelNotFoundError(exc) ==
    Contains(exc.msg, "not found for API version") /\ Contains(exc.msg, "models/")

\* ------------------------------------------------------------------ inputs
PrimaryModel == "gemini-2.5-pro"
FallbackNames == {"gemini-1.0-pro", "gemini-pro"}

RECURSIVE SeqsUpTo(_, _)
SeqsUpTo(S, n) ==
    IF n = 0 THEN {<<>>}
    ELSE LET shorter == SeqsUpTo(S, n - 1)
         IN  shorter \cup {Append(q, x) : q \in {r \in shorter : Len(r) = n - 1}, x \in S}

\* Values of --api-key and of the two environment variables.
CliKeys == {None, Some(""), Some("key-cli")}
GeminiKeys == {None, Some(""), Some("key-gemini")}
GoogleKeys == {None, Some(""), Some("key-google")}

\* Values of --prompt.
PromptArgs == {None, Some(""), Some("Hello")}

\* Values of --system.
Systems == {None, Some(""), Some("Be brief")}

\* Lines typed at the REPL prompt.
BlankLines == {"", "  ", " \t "}
QuitLines == {"exit", "EXIT", " Quit\t"}
PromptLines == {"hi", " exits "}
\* The quit lines as strip() leaves them.
QuitPrompts == {"exit", "EXIT", "Quit"}
Lines == BlankLines \cup QuitLines \cup PromptLines

\* response.text of a successful send.
Texts == {None, Some(""), Some("Hi there")}

\* str(exc) of a failed send: NotFoundMsgs carry both "not found for API
\* version" and "models/", OtherMsgs lack at least one of them.
MsgNotFound == "404 models/gemini-2.5-pro is not found for API version v1beta"
MsgReversed == "not found for API version v1beta: models/gemini-2.5-pro"
MsgQuota == "429 quota exceeded"
MsgNoModels == "404 model is not found for API version v1beta"
MsgOtherModels == "403 models/gemini-2.5-pro is not allowed"
MsgWrongCase == "404 Models/gemini-2.5-pro is Not Found for API version v1beta"
NotFoundMsgs == {MsgNotFound, MsgReversed}
OtherMsgs == {MsgQuota, MsgNoModels, MsgOtherModels, MsgWrongCase}
FailMsgs == NotFoundMsgs \cup OtherMsgs

MsgMissingDep ==
    "Missing dependency: google-generativeai. Install with: pip install google-generativeai"
MsgMissingKey == "Missing API key. Set GEMINI_API_KEY or pass --api-key."
MsgNoConfigure == "'NoneType' object has no attribute 'configure'"
Banner == "Gemini REPL. Type 'exit' or 'quit' to stop."

\* ------------------------------------------------------------------- state
VARIABLES
    pc,              \* position: "start", "repl_read", "repl_send", "swf_send",
                     \*           "swf_fallback", "exit"
    cliKey,          \* args.api_key
    envGemini,       \* os.getenv("GEMINI_API_KEY")
    envGoogle,       \* os.getenv("GOOGLE_API_KEY")
    genaiAvail,      \* genai is not None
    argPrompt,       \* args.prompt
    system,          \* args.system
    fallback_models, \* the parsed --fallback-models list
    provider_errors, \* the messages the provider's errors carry in this run
    provider_texts,  \* the values response.text takes in this run
    api_key,         \* the key passed to genai.configure, None before that
    sessions,        \* every chat built so far: [at, model, system_instruction, hist],
                     \* `at` the line of the _build_model call
    chat,            \* run_repl's `chat` (index into sessions, 0 = unset)
    swf_chat,        \* _send_with_fallback's `chat`
    caller,          \* who called _send_with_fallback: "single" or "repl"
    lastInput,       \* what the last input() call met: "none", "line" or "eof"
    prompt,          \* run_repl's and _send_with_fallback's `prompt`
    turn,            \* number of prompts dispatched so far
    swf_exc,         \* `exc` caught at line 90 of _send_with_fallback
    fbIdx,           \* position of the `for fallback in fallback_models` loop
    sends,           \* every send_message call so far: [turn, sess, at, ok, exc, text],
                     \* `at` the line of the call, `exc` what it raised, `text`
                     \* the .text of what it returned
    out,             \* standard output: [at, text], `at` the line of the print
    err,             \* error stream
    exitCode,        \* process exit code, -1 while running
    raised           \* the exception that reached the top level

vars == <<pc, cliKey, envGemini, envGoogle, genaiAvail, argPrompt, system,
          fallback_models, provider_errors, provider_texts, api_key, sessions, chat,
          swf_chat, caller, lastInput, prompt, turn,
          swf_exc, fbIdx, sends, out, err, exitCode, raised>>

config == <<cliKey, envGemini, envGoogle, genaiAvail, argPrompt, system, fallback_models,
            provider_errors, provider_texts>>

\* The state main() starts in, whatever the command line and environment.
InitRun ==
    /\ pc = "start"
    /\ api_key = None
    /\ sessions = <<>>
    /\ chat = 0
    /\ swf_chat = 0
    /\ caller = "none"
    /\ lastInput = "none"
    /\ prompt = ""
    /\ turn = 0
    /\ swf_exc = NoExc
    /\ fbIdx = 0
    /\ sends = <<>>
    /\ out = <<>>
    /\ err = <<>>
    /\ exitCode = -1
    /\ raised = NoExc

\* Every fallback list and mode; the key comes from --api-key or from nowhere,
\* there is no system instruction, the provider fails in two ways and answers
\* with a text or with none.
Init ==
    /\ cliKey \in {None, Some("key-cli")}
    /\ envGemini = None
    /\ envGoogle = None
    /\ genaiAvail \in BOOLEAN
    /\ argPrompt \in {None, Some("Hello")}
    /\ system = None
    /\ fallback_models \in SeqsUpTo(FallbackNames, MaxFallbacks)
    /\ provider_errors = {MsgNotFound, MsgNoModels}
    /\ provider_texts = {None, Some("Hi there")}
    /\ InitRun

\* Every combination of key sources and every value of --prompt, with no
\* system instruction and one fallback model.
InitStartup ==
    /\ cliKey \in CliKeys
    /\ envGemini \in GeminiKeys
    /\ envGoogle \in GoogleKeys
    /\ genaiAvail \in BOOLEAN
    /\ argPrompt \in PromptArgs
    /\ system = None
    /\ fallback_models = <<"gemini-pro">>
    /\ provider_errors = {MsgNotFound, MsgNoModels}
    /\ provider_texts = {None, Some("Hi there")}
    /\ InitRun

\* Every error message and response text of the provider and every system
\* instruction, with the key from --api-key or from nowhere and one fallback
\* model.
InitProvider ==
    /\ cliKey \in {None, Some("key-cli")}
    /\ envGemini = None
    /\ envGoogle = None
    /\ genaiAvail \in BOOLEAN
    /\ argPrompt \in {None, Some("Hello")}
    /\ system \in Systems
    /\ fallback_models = <<"gemini-pro">>
    /\ provider_errors = FailMsgs
    /\ provider_texts = Texts
    /\ InitRun

\* ----------------------------------------------------------------- helpers
GetApiKey_googleFirst(cli_key) ==
    IF Truthy(cli_key) THEN cli_key[1]
    ELSE IF Truthy(envGoogle) THEN envGoogle[1]
    ELSE IF Truthy(envGemini) THEN envGemini[1]
    ELSE ""

\* _get_api_key
GetApiKey(cli_key) ==
    IF Truthy(cli_key) THEN cli_key[1]
    ELSE IF Truthy(envGemini) THEN envGemini[1]
    ELSE IF Truthy(envGoogle) THEN envGoogle[1]
    ELSE ""

\* _build_model, lines 31-34: the client library is missing and the build raises.
BuildFails == ~genaiAvail

BuildModel_carryHistory(at, model_name) ==
    [at |-> at,
     model |-> model_name,
     system_instruction |-> IF Truthy(system) THEN system ELSE None,
     hist |-> IF chat = 0 THEN <<>> ELSE sessions[chat].hist]

\* _build_model, lines 36-49, followed by model.start_chat(history=[]): the new
\* chat.  The system instruction is attached only when it is truthy; the
\* generation parameters are the same for every chat of a run and are left out.
BuildModel(at, model_name) ==
    [at |-> at,
     model |-> model_name,
     system_instruction |-> IF Truthy(system) THEN system ELSE None,
     hist |-> <<>>]

Fallback_reversed(i) == fallback_models[Len(fallback_models) + 1 - i]

\* _send_with_fallback, line 93: the i-th candidate of the loop.
Fallback(i) == fallback_models[i]

\* An exception leaves main(): the handler under __main__ (lines 194-196) prints
\* it to the error stream and exits 1.
Unhandled(exc) ==
    /\ raised' = exc
    /\ err' = Append(err, "Unhandled error: " \o exc.msg)
    /\ exitCode' = 1
    /\ pc' = "exit"

\* main() returns.
CleanExit ==
    /\ exitCode' = 0
    /\ pc' = "exit"
    /\ UNCHANGED <<raised, err>>

\* The exception raised by the next send.
NextExc(msg) == Exc(Len(sends) + 1, msg)

\* chat.send_message(prompt) at line `at` on session s returns a response whose
\* .text is `text`.
Sent(at, s, text) ==
    [turn |-> turn, sess |-> s, at |-> at, ok |-> TRUE, exc |-> NoExc, text |-> text]

\* chat.send_message(prompt) at line `at` on session s raises an exception.
Failed(at, s, msg) ==
    [turn |-> turn, sess |-> s, at |-> at, ok |-> FALSE, exc |-> NextExc(msg),
     text |-> None]

\* The exchange of the current turn enters the history of chat s.
Exchanged(ss, s) == [ss EXCEPT ![s].hist = Append(@, turn)]

Stdout(at, text) == out' = Append(out, [at |-> at, text |-> text])

\* ------------------------------------------------------------------ main()
\* main, lines 163-165: no key resolves; SystemExit carries the message, which
\* the interpreter prints to the error stream before exiting with code 1.
MainMissingKey ==
    /\ pc = "start"
    /\ GetApiKey(cliKey) = ""
    /\ raised' = Exc(0, MsgMissingKey)
    /\ err' = Append(err, MsgMissingKey)
    /\ exitCode' = 1
    /\ pc' = "exit"
    /\ UNCHANGED <<config, api_key, sessions, chat, swf_chat, caller, lastInput, prompt, turn,
                   swf_exc, fbIdx, sends, out>>

\* main, line 167, with genai = None: the attribute lookup raises.
MainNoClient ==
    /\ pc = "start"
    /\ GetApiKey(cliKey) # ""
    /\ ~genaiAvail
    /\ Unhandled(Exc(0, MsgNoConfigure))
    /\ UNCHANGED <<config, api_key, sessions, chat, swf_chat, caller, lastInput, prompt, turn,
                   swf_exc, fbIdx, sends, out>>

\* main, lines 167-178, run_single_prompt and _send_with_fallback up to its
\* first send.
MainSinglePrompt ==
    /\ pc = "start"
    /\ GetApiKey(cliKey) # ""
    /\ genaiAvail
    /\ Truthy(argPrompt)
    /\ ~BuildFails
    /\ api_key' = Some(GetApiKey(cliKey))
    /\ prompt' = argPrompt[1]
    /\ turn' = turn + 1
    /\ caller' = "single"
    /\ sessions' = Append(sessions, BuildModel(86, PrimaryModel))
    /\ swf_chat' = Len(sessions) + 1
    /\ pc' = "swf_send"
    /\ UNCHANGED <<config, chat, lastInput, swf_exc, fbIdx, sends, out, err, exitCode,
                   raised>>

\* main, lines 167-186, and run_repl up to the first input().
MainRepl ==
    /\ pc = "start"
    /\ GetApiKey(cliKey) # ""
    /\ genaiAvail
    /\ ~Truthy(argPrompt)
    /\ ~BuildFails
    /\ api_key' = Some(GetApiKey(cliKey))
    /\ sessions' = Append(sessions, BuildModel(129, PrimaryModel))
    /\ chat' = Len(sessions) + 1
    /\ Stdout(131, Banner)
    /\ pc' = "repl_read"
    /\ UNCHANGED <<config, swf_chat, caller, lastInput, prompt, turn, swf_exc, fbIdx, sends,
                   err, exitCode, raised>>

\* ---------------------------------------------------------------- run_repl
\* run_repl, lines 134-137: input() raises EOFError.
ReplEof ==
    /\ pc = "repl_read"
    /\ lastInput' = "eof"
    /\ Stdout(136, "")
    /\ CleanExit
    /\ UNCHANGED <<config, api_key, sessions, chat, swf_chat, caller, prompt, turn,
                   swf_exc, fbIdx, sends>>

\* run_repl, lines 134-139: a blank line is read.
ReplBlank ==
    /\ pc = "repl_read"
    /\ lastInput' = "line"
    /\ \E line \in Lines :
        /\ Strip(line) = ""
        /\ prompt' = Strip(line)
    /\ UNCHANGED <<config, api_key, sessions, chat, swf_chat, caller, turn, swf_exc,
                   fbIdx, sends, out, err, exitCode, raised, pc>>

\* run_repl, lines 134-141: a quit word is read.
ReplQuit ==
    /\ pc = "repl_read"
    /\ lastInput' = "line"
    /\ \E line \in Lines :
        /\ Strip(line) # ""
        /\ IsQuit(Strip(line))
        /\ prompt' = Strip(line)
    /\ CleanExit
    /\ UNCHANGED <<config, api_key, sessions, chat, swf_chat, caller, turn, swf_exc,
                   fbIdx, sends, out>>

\* run_repl, lines 134-142: a prompt is read.
ReplPrompt ==
    /\ pc = "repl_read"
    /\ turn < MaxTurns
    /\ lastInput' = "line"
    /\ \E line \in Lines :
        /\ Strip(line) # ""
        /\ ~IsQuit(Strip(line))
        /\ prompt' = Strip(line)
    /\ turn' = turn + 1
    /\ pc' = "repl_send"
    /\ UNCHANGED <<config, api_key, sessions, chat, swf_chat, caller, swf_exc, fbIdx,
                   sends, out, err, exitCode, raised>>

ReplSendOk_rebuild ==
    /\ pc = "repl_send"
    /\ sessions' = Append(Exchanged(sessions, chat), BuildModel(129, PrimaryModel))
    /\ chat' = Len(sessions) + 1
    /\ \E text \in provider_texts :
        /\ sends' = Append(sends, Sent(143, chat, text))
        /\ Stdout(144, OrEmpty(text))
    /\ pc' = "repl_read"
    /\ UNCHANGED <<config, api_key, swf_chat, caller, lastInput, prompt, turn, swf_exc,
                   fbIdx, err, exitCode, raised>>

\* run_repl, lines 143-144: the send on the active chat succeeds.
ReplSendOk ==
    /\ pc = "repl_send"
    /\ sessions' = Exchanged(sessions, chat)
    /\ \E text \in provider_texts :
        /\ sends' = Append(sends, Sent(143, chat, text))
        /\ Stdout(144, OrEmpty(text))
    /\ pc' = "repl_read"
    /\ UNCHANGED <<config, api_key, chat, swf_chat, caller, lastInput, prompt, turn, swf_exc,
                   fbIdx, err, exitCode, raised>>

ReplSendFatal_continue ==
    /\ pc = "repl_send"
    /\ \E msg \in provider_errors :
        /\ ~IsModelNotFoundError(NextExc(msg))
        /\ sends' = Append(sends, Failed(143, chat, msg))
        /\ err' = Append(err, "Unhandled error: " \o msg)
    /\ pc' = "repl_read"
    /\ UNCHANGED <<config, api_key, sessions, chat, swf_chat, caller, lastInput, prompt,
                   turn, swf_exc, fbIdx, out, exitCode, raised>>

ReplSendFatal_prints ==
    /\ pc = "repl_send"
    /\ \E msg \in provider_errors :
        /\ ~IsModelNotFoundError(NextExc(msg))
        /\ sends' = Append(sends, Failed(143, chat, msg))
        /\ Unhandled(NextExc(msg))
    /\ Stdout(144, "")
    /\ UNCHANGED <<config, api_key, sessions, chat, swf_chat, caller, lastInput, prompt, turn,
                   swf_exc, fbIdx>>

\* run_repl, lines 145-147: the send fails and is not a model-not-found error.
ReplSendFatal ==
    /\ pc = "repl_send"
    /\ \E msg \in provider_errors :
        /\ ~IsModelNotFoundError(NextExc(msg))
        /\ sends' = Append(sends, Failed(143, chat, msg))
        /\ Unhandled(NextExc(msg))
    /\ UNCHANGED <<config, api_key, sessions, chat, swf_chat, caller, lastInput, prompt, turn,
                   swf_exc, fbIdx, out>>

ReplSendNotFound_skipPrimary ==
    /\ pc = "repl_send"
    /\ ~BuildFails
    /\ \E msg \in provider_errors :
        /\ IsModelNotFoundError(NextExc(msg))
        /\ sends' = Append(sends, Failed(143, chat, msg))
        /\ swf_exc' = NextExc(msg)
    /\ swf_chat' = chat
    /\ caller' = "repl"
    /\ fbIdx' = 1
    /\ pc' = "swf_fallback"
    /\ UNCHANGED <<config, api_key, sessions, chat, lastInput, prompt, turn, out, err,
                   exitCode, raised>>

\* run_repl, lines 145-148, and _send_with_fallback, lines 86-87: the send fails
\* with a model-not-found error and the dispatcher builds a new primary chat.
ReplSendNotFound ==
    /\ pc = "repl_send"
    /\ ~BuildFails
    /\ \E msg \in provider_errors :
        /\ IsModelNotFoundError(NextExc(msg))
        /\ sends' = Append(sends, Failed(143, chat, msg))
    /\ sessions' = Append(sessions, BuildModel(86, PrimaryModel))
    /\ swf_chat' = Len(sessions) + 1
    /\ caller' = "repl"
    /\ pc' = "swf_send"
    /\ UNCHANGED <<config, api_key, chat, lastInput, prompt, turn, swf_exc, fbIdx, out, err,
                   exitCode, raised>>

\* ----------------------------------------------------- _send_with_fallback
Return_keepChat(text) ==
    IF caller = "single" THEN
        /\ Stdout(119, OrEmpty(text))
        /\ CleanExit
        /\ UNCHANGED chat
    ELSE
        /\ UNCHANGED chat
        /\ Stdout(156, OrEmpty(text))
        /\ pc' = "repl_read"
        /\ UNCHANGED <<err, exitCode, raised>>

Return_noPrint(text) ==
    IF caller = "single" THEN
        /\ Stdout(119, OrEmpty(text))
        /\ CleanExit
        /\ UNCHANGED chat
    ELSE
        /\ chat' = swf_chat'
        /\ UNCHANGED out
        /\ pc' = "repl_read"
        /\ UNCHANGED <<err, exitCode, raised>>

\* The dispatcher returns (swf_chat, response) to its caller, which prints the
\* text: run_single_prompt, lines 111-119, or run_repl, lines 148-156.
Return(text) ==
    IF caller = "single" THEN
        /\ Stdout(119, OrEmpty(text))
        /\ CleanExit
        /\ UNCHANGED chat
    ELSE
        /\ chat' = swf_chat'
        /\ Stdout(156, OrEmpty(text))
        /\ pc' = "repl_read"
        /\ UNCHANGED <<err, exitCode, raised>>

\* _send_with_fallback, line 89: the first send succeeds.
SwfSendOk ==
    /\ pc = "swf_send"
    /\ sessions' = Exchanged(sessions, swf_chat)
    /\ swf_chat' = swf_chat
    /\ \E text \in provider_texts :
        /\ sends' = Append(sends, Sent(89, swf_chat, text))
        /\ Return(text)
    /\ UNCHANGED <<config, api_key, caller, lastInput, prompt, turn, swf_exc, fbIdx>>

\* _send_with_fallback, lines 90-92: the first send fails, not model-not-found.
SwfSendFatal ==
    /\ pc = "swf_send"
    /\ \E msg \in provider_errors :
        /\ ~IsModelNotFoundError(NextExc(msg))
        /\ sends' = Append(sends, Failed(89, swf_chat, msg))
        /\ Unhandled(NextExc(msg))
    /\ UNCHANGED <<config, api_key, sessions, chat, swf_chat, caller, lastInput, prompt, turn,
                   swf_exc, fbIdx, out>>

\* _send_with_fallback, lines 90-93: the first send fails model-not-found and the
\* loop over fallback_models starts.
SwfSendNotFound ==
    /\ pc = "swf_send"
    /\ \E msg \in provider_errors :
        /\ IsModelNotFoundError(NextExc(msg))
        /\ sends' = Append(sends, Failed(89, swf_chat, msg))
        /\ swf_exc' = NextExc(msg)
    /\ fbIdx' = 1
    /\ pc' = "swf_fallback"
    /\ UNCHANGED <<config, api_key, sessions, chat, swf_chat, caller, lastInput, prompt, turn,
                   out, err, exitCode, raised>>

SwfFallbackOk_keepsChat ==
    /\ pc = "swf_fallback"
    /\ fbIdx <= Len(fallback_models)
    /\ ~BuildFails
    /\ swf_chat' = swf_chat
    /\ sessions' = Exchanged(Append(sessions, BuildModel(94, Fallback(fbIdx))),
                             Len(sessions) + 1)
    /\ \E text \in provider_texts :
        /\ sends' = Append(sends, Sent(97, Len(sessions) + 1, text))
        /\ Return(text)
    /\ UNCHANGED <<config, api_key, caller, lastInput, prompt, turn, swf_exc, fbIdx>>

\* _send_with_fallback, lines 93-97: the next candidate is built and its send
\* succeeds.
SwfFallbackOk ==
    /\ pc = "swf_fallback"
    /\ fbIdx <= Len(fallback_models)
    /\ ~BuildFails
    /\ swf_chat' = Len(sessions) + 1
    /\ sessions' = Exchanged(Append(sessions, BuildModel(94, Fallback(fbIdx))),
                             Len(sessions) + 1)
    /\ \E text \in provider_texts :
        /\ sends' = Append(sends, Sent(97, Len(sessions) + 1, text))
        /\ Return(text)
    /\ UNCHANGED <<config, api_key, caller, lastInput, prompt, turn, swf_exc, fbIdx>>

SwfFallbackFail_abortOther ==
    /\ pc = "swf_fallback"
    /\ fbIdx <= Len(fallback_models)
    /\ ~BuildFails
    /\ swf_chat' = Len(sessions) + 1
    /\ \E msg \in provider_errors :
        /\ sends' = Append(sends, Failed(97, Len(sessions) + 1, msg))
        /\ IF IsModelNotFoundError(NextExc(msg))
           THEN /\ fbIdx' = fbIdx + 1
                /\ UNCHANGED <<pc, err, exitCode, raised>>
           ELSE /\ Unhandled(NextExc(msg))
                /\ UNCHANGED fbIdx
    /\ sessions' = Append(sessions, BuildModel(94, Fallback(fbIdx)))
    /\ UNCHANGED <<config, api_key, chat, caller, lastInput, prompt, turn, swf_exc, out>>

\* _send_with_fallback, lines 93-99: the next candidate is built and its send
\* fails, for whatever reason; the loop continues.
SwfFallbackFail ==
    /\ pc = "swf_fallback"
    /\ fbIdx <= Len(fallback_models)
    /\ ~BuildFails
    /\ swf_chat' = Len(sessions) + 1
    /\ \E msg \in provider_errors :
        sends' = Append(sends, Failed(97, Len(sessions) + 1, msg))
    /\ sessions' = Append(sessions, BuildModel(94, Fallback(fbIdx)))
    /\ fbIdx' = fbIdx + 1
    /\ UNCHANGED <<config, api_key, chat, caller, lastInput, prompt, turn, swf_exc, pc, out, err,
                   exitCode, raised>>

Reraised_lastFallback == sends[Len(sends)].exc

\* _send_with_fallback, line 100: the bare `raise` re-raises the exception being
\* handled by the enclosing `except Exception as exc`.
Reraised == swf_exc

\* _send_with_fallback, line 100: the list is exhausted.
SwfExhausted ==
    /\ pc = "swf_fallback"
    /\ fbIdx > Len(fallback_models)
    /\ Unhandled(Reraised)
    /\ UNCHANGED <<config, api_key, sessions, chat, swf_chat, caller, lastInput, prompt, turn,
                   swf_exc, fbIdx, sends, out>>

Next ==
    \/ MainMissingKey
    \/ MainNoClient
    \/ MainSinglePrompt
    \/ MainRepl
    \/ ReplEof
    \/ ReplBlank
    \/ ReplQuit
    \/ ReplPrompt
    \/ ReplSendOk
    \/ ReplSendFatal
    \/ ReplSendNotFound
    \/ SwfSendOk
    \/ SwfSendFatal
    \/ SwfSendNotFound
    \/ SwfFallbackOk
    \/ SwfFallbackFail
    \/ SwfExhausted

Spec == Init /\ [][Next]_vars

SpecStartup == InitStartup /\ [][Next]_vars

SpecProvider == InitProvider /\ [][Next]_vars

\* ------------------------------------------------------------- properties
LastSend == sends[Len(sends)]

\* The sends of turn t, in the order they were made.
SendsOfTurn(t) == {k \in DOMAIN sends : sends[k].turn = t}

\* The last send of the dispatcher's own chat (line 89) before send i.
PrimaryBefore(i) ==
    LET earlier == {k \in 1..(i - 1) : sends[k].at = 89}
    IN  IF earlier = {} THEN 0 ELSE CHOOSE k \in earlier : \A j \in earlier : j <= k

Candidates == {PrimaryModel} \cup {fallback_models[i] : i \in DOMAIN fallback_models}

\* C1: when the dispatcher's first send fails with an error that is not a
\* model-not-found error, that very exception reaches the caller, it is the last
\* send of the run and the primary chat is the last chat built: no fallback chat
\* is built and no fallback send is made.
C1_OtherErrorPropagates ==
    \A k \in DOMAIN sends :
        (sends[k].at = 89 /\ ~sends[k].ok /\ sends[k].exc.msg \in OtherMsgs)
        => /\ pc = "exit"
           /\ raised = sends[k].exc
           /\ k = Len(sends)
           /\ sends[k].sess = Len(sessions)

C1_Witness ==
    /\ pc = "exit"
    /\ Len(fallback_models) = 2
    /\ Len(sends) = 1
    /\ LastSend.at = 89
    /\ LastSend.exc.msg = MsgNoModels
    /\ raised = LastSend.exc

\* C2: after a model-not-found failure of the dispatcher's first send, the j-th
\* fallback send goes to a chat built for the j-th name of the list, only after
\* the primary and the candidates before it have failed in the same turn; every
\* fallback chat built is sent to exactly once, and nothing is sent in a turn
\* after a send that succeeded.
C2_FallbackInListOrder ==
    /\ \A i \in DOMAIN sends :
        sends[i].at = 97 =>
            LET k == PrimaryBefore(i) IN
            /\ k > 0
            /\ sends[k].exc.msg \in NotFoundMsgs
            /\ i - k <= Len(fallback_models)
            /\ sessions[sends[i].sess].at = 94
            /\ sessions[sends[i].sess].model = fallback_models[i - k]
            /\ \A j \in k..(i - 1) :
                /\ ~sends[j].ok
                /\ sends[j].turn = sends[i].turn
                /\ sends[j].sess # sends[i].sess
    /\ \A s \in DOMAIN sessions :
        sessions[s].at = 94 => \E i \in DOMAIN sends : sends[i].at = 97 /\ sends[i].sess = s
    /\ \A i \in DOMAIN sends :
        (sends[i].ok /\ i < Len(sends)) => sends[i + 1].turn > sends[i].turn

C2_Witness ==
    /\ fallback_models = <<"gemini-pro", "gemini-1.0-pro">>
    /\ Len(sends) = 3
    /\ sends[1].at = 89 /\ ~sends[1].ok
    /\ sends[2].at = 97 /\ ~sends[2].ok
    /\ sends[3].at = 97 /\ sends[3].ok
    /\ sessions[sends[3].sess].model = "gemini-1.0-pro"

\* C3: when the dispatcher's first send fails model-not-found and the run ends
\* with an exception in that turn, the exception is the one of that first send
\* (the same object, not merely the same message), and every fallback of the
\* list was tried and failed.
C3_ExhaustedRaisesOriginal ==
    \A k \in DOMAIN sends :
        (/\ sends[k].at = 89
         /\ sends[k].exc.msg \in NotFoundMsgs
         /\ sends[k].turn = turn
         /\ pc = "exit"
         /\ raised # NoExc)
        => /\ raised = sends[k].exc
           /\ Len(sends) = k + Len(fallback_models)
           /\ \A j \in (k + 1)..Len(sends) : ~sends[j].ok /\ sends[j].exc # raised

C3_Witness ==
    /\ pc = "exit"
    /\ Len(fallback_models) = 2
    /\ Len(sends) = 3
    /\ sends[1].at = 89
    /\ sends[2].exc.msg = MsgNoModels
    /\ sends[3].exc.msg = sends[1].exc.msg
    /\ raised = sends[1].exc

\* C4: a failed send at a classification point (line 89 or line 143) is treated
\* as model-not-found, that is the run goes on to the dispatcher or to its
\* fallback loop, exactly when its message carries both "not found for API
\* version" and "models/"; with any other message the exception ends the run.
C4_ClassificationIsTextual ==
    [][(/\ Len(sends') = Len(sends) + 1
        /\ ~LastSend'.ok
        /\ LastSend'.at \in {89, 143})
       => /\ (pc' \in {"swf_send", "swf_fallback"}) <=> (LastSend'.exc.msg \in NotFoundMsgs)
          /\ (pc' = "exit" /\ raised' = LastSend'.exc) <=> (LastSend'.exc.msg \in OtherMsgs)
          /\ LastSend'.exc.msg \in FailMsgs]_vars

C4_Witness ==
    /\ Len(sends) = 2
    /\ sends[1].at = 143
    /\ sends[1].exc.msg = MsgReversed
    /\ sends[2].at = 89
    /\ sends[2].exc.msg = MsgWrongCase
    /\ raised = sends[2].exc

\* A turn has been dispatched and is over.
TurnOver == turn >= 1 /\ pc \in {"repl_read", "exit"}

\* C5: no turn makes more than Len(fallback_models) + 1 sends.
C5_AtMostNPlusOneSends ==
    \A t \in 1..turn : Cardinality(SendsOfTurn(t)) <= Len(fallback_models) + 1

\* C6: run_repl holds one chat, which is one of the chats built; a turn that
\* is over either left a response, produced by its last send on a chat bound to
\* the primary model or to a name of the fallback list, that chat being the
\* active one (run_repl's chat, or the chat the dispatcher returned in one-shot
\* mode), or it ended the run with an exception.
C6_TurnIsAtomic ==
    /\ chat \in 0..Len(sessions)
    /\ (pc \in {"repl_read", "repl_send", "swf_send", "swf_fallback"} /\ caller # "single")
       => chat >= 1
    /\ TurnOver =>
        \/ /\ raised = NoExc
           /\ SendsOfTurn(turn) # {}
           /\ LastSend.turn = turn
           /\ LastSend.ok
           /\ sessions[LastSend.sess].model \in Candidates
           /\ sessions[LastSend.sess].hist # <<>>
           /\ LastSend.sess = IF caller = "single" THEN swf_chat ELSE chat
           /\ out # <<>> /\ out[Len(out)].at \in {119, 144, 156, 136}
        \/ /\ raised # NoExc
           /\ pc = "exit"
           /\ exitCode = 1

C6_Witness ==
    /\ pc = "repl_read"
    /\ turn = 2
    /\ Len(sends) = 4
    /\ sends[1].ok
    /\ LastSend.at = 97
    /\ LastSend.ok
    /\ chat = LastSend.sess
    /\ chat # sends[1].sess
    /\ sessions[chat].model = "gemini-pro"

\* C7: a read that meets the end of the input, or a line that is "exit" or
\* "quit" in some letter case once stripped, ends the run with exit code 0, with
\* no exception, nothing on the error stream and no send; and nothing happens
\* after the exit.
C7_QuitAndEofExitCleanly ==
    [][/\ pc # "exit"
       /\ (/\ pc = "repl_read"
           /\ \/ lastInput' = "eof"
              \/ lastInput' = "line" /\ prompt' \in QuitPrompts)
          => /\ pc' = "exit"
             /\ exitCode' = 0
             /\ raised' = NoExc
             /\ err' = <<>>
             /\ sends' = sends
             /\ sessions' = sessions
             /\ turn' = turn]_vars

C7_Witness ==
    /\ pc = "exit"
    /\ exitCode = 0
    /\ lastInput = "line"
    /\ prompt = "Quit"
    /\ turn = 1
    /\ Len(sends) = 1

\* C8: a read that returns an empty or whitespace-only line makes no send, prints
\* nothing, builds no chat, keeps the active chat and leaves the loop reading.
C8_BlankLineIsSkipped ==
    [][(/\ pc = "repl_read"
        /\ lastInput' = "line"
        /\ prompt' \in BlankLines)
       => /\ pc' = "repl_read"
          /\ prompt' = ""
          /\ sends' = sends
          /\ out' = out
          /\ err' = err
          /\ chat' = chat
          /\ sessions' = sessions
          /\ turn' = turn
          /\ exitCode' = exitCode]_vars

C8_Witness ==
    /\ pc = "repl_read"
    /\ lastInput = "line"
    /\ prompt = ""
    /\ turn = 1
    /\ Len(sends) = 1
    /\ Len(out) = 2

\* C9: in the REPL, a send at line 143 or line 89 that fails with a message
\* lacking the model-not-found signature ends the run: that exception reaches
\* the top level, "Unhandled error: <message>" is the one line on the error
\* stream, the exit code is 1, no response is printed for the turn, and no step
\* follows the exit (no further read).
C9_OtherErrorIsFatalInRepl ==
    [][/\ pc # "exit"
       /\ (/\ ~Truthy(argPrompt)
           /\ Len(sends') = Len(sends) + 1
           /\ ~LastSend'.ok
           /\ LastSend'.at \in {89, 143}
           /\ LastSend'.exc.msg \in OtherMsgs)
          => /\ pc' = "exit"
             /\ exitCode' = 1
             /\ raised' = LastSend'.exc
             /\ err' = <<"Unhandled error: " \o LastSend'.exc.msg>>
             /\ out' = out
             /\ lastInput' = lastInput]_vars

C9_Witness ==
    /\ pc = "exit"
    /\ argPrompt = None
    /\ turn = 2
    /\ Len(sends) = 2
    /\ sends[1].ok
    /\ LastSend.at = 143
    /\ LastSend.exc.msg = MsgNoModels
    /\ raised = LastSend.exc
    /\ exitCode = 1

\* C10: when --api-key, GEMINI_API_KEY and GOOGLE_API_KEY are all unset or
\* empty, the run is over after its first step with a message that mentions
\* "API key" on the error stream and exit code 1, the provider not configured,
\* no chat built, nothing sent and nothing printed; otherwise the key handed to
\* the provider is the flag's, else GEMINI_API_KEY's, else GOOGLE_API_KEY's.
C10_MissingKeyStopsEarly ==
    /\ (~Truthy(cliKey) /\ ~Truthy(envGemini) /\ ~Truthy(envGoogle) /\ pc # "start")
       => /\ pc = "exit"
          /\ exitCode = 1
          /\ Len(err) = 1
          /\ Contains(err[1], "API key")
          /\ api_key = None
          /\ sessions = <<>>
          /\ sends = <<>>
          /\ out = <<>>
    /\ api_key # None
       => /\ Truthy(cliKey) => api_key = cliKey
          /\ (~Truthy(cliKey) /\ Truthy(envGemini)) => api_key = envGemini
          /\ (~Truthy(cliKey) /\ ~Truthy(envGemini)) => api_key = envGoogle
          /\ Truthy(api_key)
    /\ (sessions # <<>> \/ sends # <<>>) => api_key # None

C10_Witness ==
    /\ pc = "exit"
    /\ cliKey = Some("")
    /\ envGemini = None
    /\ envGoogle = Some("")
    /\ argPrompt = Some("Hello")
    /\ genaiAvail
    /\ exitCode = 1
    /\ err = <<MsgMissingKey>>

\* What is printed for a response whose .text is o: the text, or the empty
\* string when there is none.
Shown(o) == IF o = None \/ o = Some("") THEN "" ELSE o[1]

\* C11: with --prompt, the run dispatches one prompt: its first send is the
\* dispatcher's (line 89) on the chat just built for the primary model, every
\* send is the dispatcher's and belongs to turn 1, a send that succeeds is the
\* last step of the run, and a run that ends without exception has printed
\* exactly one line, at line 119, holding the text of that response, or the
\* empty string when the response has no text; otherwise nothing is printed.
C11_OneShotPrintsOnce ==
    Truthy(argPrompt) =>
        /\ turn <= 1
        /\ chat = 0
        /\ lastInput = "none"
        /\ \A k \in DOMAIN sends : sends[k].turn = 1 /\ sends[k].at \in {89, 97}
        /\ sends # <<>> =>
            /\ sends[1].at = 89
            /\ sends[1].sess = 1
            /\ sessions[1].at = 86
            /\ sessions[1].model = PrimaryModel
            /\ sessions[1].hist \in {<<>>, <<1>>}
        /\ \A k \in DOMAIN sends : sends[k].ok => (k = Len(sends) /\ pc = "exit")
        /\ (pc = "exit" /\ raised = NoExc)
           => /\ sends # <<>>
              /\ LastSend.ok
              /\ out = <<[at |-> 119, text |-> Shown(LastSend.text)]>>
              /\ exitCode = 0
        /\ ~(pc = "exit" /\ raised = NoExc) => out = <<>>

C11_Witness ==
    /\ argPrompt = Some("Hello")
    /\ pc = "exit"
    /\ raised = NoExc
    /\ Len(sends) = 1
    /\ LastSend.text = None
    /\ out = <<[at |-> 119, text |-> ""]>>

\* The response lines on standard output and the sends that returned a response.
Responses == {i \in DOMAIN out : out[i].at \in {119, 144, 156}}
OkSends == {k \in DOMAIN sends : sends[k].ok}

\* The response lines printed up to and including output line i, and the
\* successful sends of turns 1..t.
ResponsesUpTo(i) == {j \in Responses : j <= i}
OkSendsUpTo(t) == {k \in OkSends : sends[k].turn <= t}

\* C12: standard output never holds more response lines than sends have
\* succeeded (it holds exactly as many, the n-th response line showing the text
\* of the n-th successful send), and a run ended by an exception during a turn
\* holds no response line for that turn: one per earlier turn and no more.
C12_PrintOnlyAfterSuccess ==
    /\ Cardinality(Responses) = Cardinality(OkSends)
    /\ \A i \in Responses :
        \E k \in OkSends :
            /\ Cardinality(ResponsesUpTo(i)) = Cardinality(OkSendsUpTo(sends[k].turn))
            /\ out[i].text = Shown(sends[k].text)
    /\ (raised # NoExc /\ turn >= 1)
       => /\ ~LastSend.ok
          /\ LastSend.turn = turn
          /\ \A k \in SendsOfTurn(turn) : ~sends[k].ok
          /\ Cardinality(Responses) = turn - 1

C12_Witness ==
    /\ pc = "exit"
    /\ raised # NoExc
    /\ turn = 2
    /\ Len(sends) = 2
    /\ sends[1].ok
    /\ raised = LastSend.exc
    /\ Cardinality(Responses) = 1

\* C13: a fallback send (line 97) that fails, whatever its message, is never
\* the exception that ends the run; when it is not the last of the list, the
\* next send, if the run has made one, is the fallback send for the next name
\* of the list in the same turn, and until then the loop is still running;
\* when it is the last of the list, the loop is over or the run has ended with
\* the exception of the dispatcher's first send.
C13_FailedFallbackIsSkipped ==
    \A i \in DOMAIN sends :
        (sends[i].at = 97 /\ ~sends[i].ok) =>
            LET k == PrimaryBefore(i)
                j == i - k
            IN  /\ sends[i].exc.msg \in NotFoundMsgs \cup OtherMsgs
                /\ raised # sends[i].exc
                /\ j < Len(fallback_models) =>
                    /\ i < Len(sends) =>
                        /\ sends[i + 1].at = 97
                        /\ sends[i + 1].turn = sends[i].turn
                        /\ sessions[sends[i + 1].sess].model = fallback_models[j + 1]
                    /\ i = Len(sends) =>
                        /\ pc = "swf_fallback"
                        /\ fbIdx = j + 1
                        /\ raised = NoExc
                /\ j >= Len(fallback_models) =>
                    /\ i = Len(sends)
                    /\ \/ pc = "swf_fallback" /\ fbIdx = j + 1 /\ raised = NoExc
                       \/ pc = "exit" /\ raised = sends[k].exc

C13_Witness ==
    /\ Len(fallback_models) = 2
    /\ Len(sends) = 3
    /\ sends[1].at = 89
    /\ sends[2].at = 97
    /\ sends[2].exc.msg = MsgNoModels
    /\ sends[3].at = 97
    /\ sends[3].ok

\* The dispatcher has returned in the current turn: the last send is one of its
\* own (line 89 or 97), it succeeded, and the caller has taken the result.
DispatcherReturned ==
    /\ sends # <<>>
    /\ LastSend.at \in {89, 97}
    /\ LastSend.ok
    /\ LastSend.turn = turn
    /\ pc \in {"repl_read", "exit"}

LastResponse == out[CHOOSE i \in Responses : \A j \in Responses : j <= i]

\* C14: once the dispatcher has returned, the chat it returned (the one its
\* caller holds) is the chat of the one send of the turn that succeeded, every
\* earlier send of the turn having failed; that chat is the dispatcher's primary
\* chat when the send at line 89 succeeded, else the chat built for the first
\* name of the list whose send succeeded; the exchange is in that chat's history
\* and the response the caller prints is that send's.
C14_ReturnsSucceedingSession ==
    DispatcherReturned =>
        LET i == Len(sends)
            k == IF LastSend.at = 89 THEN i ELSE PrimaryBefore(i)
        IN  /\ swf_chat = LastSend.sess
            /\ caller = "repl" => chat = LastSend.sess
            /\ \A j \in SendsOfTurn(turn) : j # i => ~sends[j].ok
            /\ k >= 1
            /\ sends[k].turn = turn
            /\ sessions[sends[k].sess].at = 86
            /\ sessions[sends[k].sess].model = PrimaryModel
            /\ LastSend.at = 97 =>
                /\ sessions[LastSend.sess].at = 94
                /\ sessions[LastSend.sess].model = fallback_models[i - k]
                /\ \A j \in k..(i - 1) : ~sends[j].ok
            /\ sessions[LastSend.sess].hist = <<turn>>
            /\ Responses # {}
            /\ LastResponse.at = (IF caller = "single" THEN 119 ELSE 156)
            /\ LastResponse.text = Shown(LastSend.text)

C14_Witness ==
    /\ DispatcherReturned
    /\ caller = "repl"
    /\ pc = "repl_read"
    /\ fallback_models = <<"gemini-pro", "gemini-1.0-pro">>
    /\ Len(sends) = 4
    /\ LastSend.at = 97
    /\ LastSend.text = Some("Hi there")
    /\ chat = 4
    /\ sessions[chat].model = "gemini-1.0-pro"

\* C15: a run in which a key resolves and the provider client is missing ends
\* with the exception of _build_model's own check (its "Missing dependency"
\* message), with nothing sent.
C15_UnavailableClientFailsInBuilder ==
    (~genaiAvail /\ pc = "exit" /\ (Truthy(cliKey) \/ Truthy(envGemini) \/ Truthy(envGoogle)))
    => /\ raised = Exc(0, MsgMissingDep)
       /\ err = <<"Unhandled error: " \o MsgMissingDep>>
       /\ sends = <<>>

\* The sends of the dispatcher that returned a response.
Replacements == {i \in OkSends : sends[i].at \in {89, 97}}

\* C16: in the REPL, after a send of the dispatcher succeeded, the chat it was
\* made on is the active one and differs from the chat active before, which
\* receives no later send; the next send of the run opens the next turn on the
\* active chat (line 143) and goes to the replacement, and so does the first
\* send of every later turn until the dispatcher succeeds again.
C16_ReplacementStaysActive ==
    ~Truthy(argPrompt) =>
        \A i \in Replacements :
            LET old == sends[CHOOSE f \in SendsOfTurn(sends[i].turn) : sends[f].at = 143].sess
            IN  /\ sends[i].sess # old
                /\ \A j \in (i + 1)..Len(sends) : sends[j].sess # old
                /\ i = Len(sends) => chat = sends[i].sess
                /\ i < Len(sends) =>
                    /\ sends[i + 1].at = 143
                    /\ sends[i + 1].turn = sends[i].turn + 1
                /\ \A j \in (i + 1)..Len(sends) :
                    (sends[j].at = 143 /\ \A l \in Replacements : ~(i < l /\ l < j))
                    => sends[j].sess = sends[i].sess

C16_Witness ==
    /\ argPrompt = None
    /\ turn = 2
    /\ Len(sends) = 4
    /\ sends[1].at = 143
    /\ sends[3].at = 97
    /\ sends[3].ok
    /\ sends[4].at = 143
    /\ sends[4].sess = sends[3].sess
    /\ sessions[sends[4].sess].model = "gemini-pro"

\* C17: a step in which the send on the active chat (line 143) succeeds keeps
\* run_repl's chat, builds no chat, and ends the turn; and a step that rebinds
\* run_repl's chat belongs to a turn whose send at line 143 failed with a
\* message carrying the model-not-found signature.
C17_SuccessKeepsSession ==
    [][/\ (/\ Len(sends') = Len(sends) + 1
           /\ LastSend'.at = 143
           /\ LastSend'.ok)
          => /\ LastSend'.sess = chat
             /\ chat' = chat
             /\ Len(sessions') = Len(sessions)
             /\ pc' = "repl_read"
       /\ (chat' # chat /\ chat # 0)
          => \E f \in SendsOfTurn(turn) :
                /\ sends[f].at = 143
                /\ ~sends[f].ok
                /\ sends[f].exc.msg \in NotFoundMsgs]_vars

C17_Witness ==
    /\ argPrompt = None
    /\ turn = 2
    /\ pc = "repl_read"
    /\ Len(sends) = 2
    /\ sends[1].ok
    /\ sends[2].ok
    /\ sends[2].at = 143
    /\ chat = 1
    /\ Len(sessions) = 1

\* C18: when the send on the active chat (line 143) fails with a message
\* carrying the model-not-found signature, the dispatcher is entered with a chat
\* just built for the primary model, other than the active one and with no
\* history; the next send is the dispatcher's first (line 89), on that chat, in
\* the same turn.  If that send fails without the signature, it is the last send
\* of the run, its exception ends the run and no fallback chat is built; a
\* further send in the turn is a fallback send and follows a failure of that
\* send with the signature.
C18_ResendOnFreshPrimary ==
    \A f \in DOMAIN sends :
        (sends[f].at = 143 /\ ~sends[f].ok /\ sends[f].exc.msg \in NotFoundMsgs) =>
            /\ f = Len(sends) =>
                /\ pc = "swf_send"
                /\ swf_chat = Len(sessions)
                /\ swf_chat # sends[f].sess
                /\ sessions[swf_chat].at = 86
                /\ sessions[swf_chat].model = PrimaryModel
                /\ sessions[swf_chat].hist = <<>>
                /\ raised = NoExc
            /\ f < Len(sends) =>
                LET r == sends[f + 1]
                IN  /\ r.at = 89
                    /\ r.turn = sends[f].turn
                    /\ r.sess # sends[f].sess
                    /\ \A j \in 1..f : sends[j].sess < r.sess
                    /\ sessions[r.sess].at = 86
                    /\ sessions[r.sess].model = PrimaryModel
                    /\ (~r.ok /\ r.exc.msg \in OtherMsgs) =>
                        /\ f + 1 = Len(sends)
                        /\ pc = "exit"
                        /\ raised = r.exc
                        /\ Len(sessions) = r.sess
                    /\ (f + 2 <= Len(sends) /\ sends[f + 2].turn = r.turn) =>
                        /\ sends[f + 2].at = 97
                        /\ ~r.ok
                        /\ r.exc.msg \in NotFoundMsgs

C18_Witness ==
    /\ pc = "exit"
    /\ argPrompt = None
    /\ Len(fallback_models) = 2
    /\ Len(sends) = 2
    /\ sends[1].at = 143
    /\ sends[1].exc.msg = MsgNotFound
    /\ sends[2].at = 89
    /\ sends[2].exc.msg = MsgNoModels
    /\ raised = sends[2].exc
    /\ Len(sessions) = 2

\* The successful sends made on chat s.
OkSendsOn(s) == {k \in OkSends : sends[k].sess = s}

\* C19: the history of a chat holds the exchanges made on it and nothing else:
\* one entry per successful send on that chat, for the turn of that send.  A
\* chat built by the dispatcher (lines 86-87 and 94-95) has an empty history
\* until a send on it succeeds, and once the dispatcher has returned to
\* run_repl the active chat's history holds the exchange of the current turn
\* only, none of an earlier turn.
C19_ReplacementStartsEmpty ==
    /\ \A s \in DOMAIN sessions :
        /\ Len(sessions[s].hist) = Cardinality(OkSendsOn(s))
        /\ \A h \in DOMAIN sessions[s].hist :
            \E k \in OkSendsOn(s) : sends[k].turn = sessions[s].hist[h]
        /\ (sessions[s].at \in {86, 94} /\ OkSendsOn(s) = {}) => sessions[s].hist = <<>>
    /\ (DispatcherReturned /\ caller = "repl")
       => /\ sessions[chat].at \in {86, 94}
          /\ sessions[chat].hist = <<turn>>
          /\ \A t \in 1..(turn - 1) : \A h \in DOMAIN sessions[chat].hist :
                sessions[chat].hist[h] # t

C19_Witness ==
    /\ DispatcherReturned
    /\ caller = "repl"
    /\ turn = 2
    /\ Len(sends) = 3
    /\ sends[1].ok
    /\ sessions[sends[1].sess].hist = <<1>>
    /\ chat = 2
    /\ sessions[chat].hist = <<2>>

\* The response lines run_repl has printed, in order.
ReplResponses == {i \in DOMAIN out : out[i].at \in {144, 156}}

\* C20: in the REPL, when no turn is in progress and no exception has ended the
\* run, standard output holds exactly one response line per turn dispatched;
\* while a turn is in progress, or after it raised, it holds one per earlier
\* turn.  The line of turn t shows the text of the one send of turn t that
\* succeeded, printed at line 144 when that send was on the active chat and at
\* line 156 when it was the dispatcher's.
C20_OneResponsePerTurn ==
    ~Truthy(argPrompt) =>
        LET done == IF pc \in {"repl_send", "swf_send", "swf_fallback"} \/ raised # NoExc
                    THEN turn - 1 ELSE turn
        IN  /\ pc # "start" => Cardinality(ReplResponses) = (IF turn = 0 THEN 0 ELSE done)
            /\ \A t \in 1..done :
                /\ Cardinality(SendsOfTurn(t) \cap OkSends) = 1
                /\ \E i \in ReplResponses : \E k \in SendsOfTurn(t) \cap OkSends :
                    /\ Cardinality({j \in ReplResponses : j <= i}) = t
                    /\ out[i].at = (IF sends[k].at = 143 THEN 144 ELSE 156)
                    /\ out[i].text = Shown(sends[k].text)

C20_Witness ==
    /\ argPrompt = None
    /\ pc = "repl_read"
    /\ turn = 2
    /\ Len(sends) = 4
    /\ sends[1].at = 143
    /\ sends[1].ok
    /\ LastSend.at = 97
    /\ LastSend.ok
    /\ Len(out) = 3
    /\ out[2].at = 144
    /\ out[3].at = 156

====
